---- MODULE Spec2Model ----
(***************************************************************************)
(* Model of the question selection engine of the exam practice server      *)
(* (server/src/services/questionService.ts) over the question_results      *)
(* table of the database layer (db/database.ts).                           *)
(*                                                                         *)
(* One selection call is followed from its synchronous prefix (catalog     *)
(* load, subtopic filter, first store query of the mode) through the       *)
(* joined weight computation to the draw loop of the weighted sampler.     *)
(* The node event loop runs other requests only while the call is          *)
(* suspended at an await, so results are recorded into the table only      *)
(* between calls and while the call waits for its weights.                 *)
(***************************************************************************)
EXTENDS Integers, Sequences, FiniteSets, TLC

VARIABLES
    questionsCache,     \* module level cache of the parsed catalog, or Null
    question_results,   \* the question_results table, by question
    pc,                 \* position of the selection call
    count,              \* argument count of the call
    mode,               \* argument mode of the call
    subtopic,           \* argument subtopic of the call, or NoSubtopic
    candidates,         \* local candidates: the pool handed to the strategy
    stats,              \* local stats of case "weak"
    missedIds,          \* local missedIds of case "missed"
    answeredIds,        \* local answeredIds of case "new"
    remaining,          \* sampler: remaining (question, weight) pairs
    selected,           \* sampler: selected questions in draw order
    i,                  \* sampler: loop counter of the draw loop
    result,             \* the value the call resolved to
    queries,            \* store queries issued by the call, per kind
    userId,             \* learner id the route passes as fourth argument
    scopes,             \* learner scopes the call issued its queries with
    topicWeightMap,     \* topic weights the sampler computed for the call
    reads,              \* times questions.json was read and parsed
    error,              \* the error the call rejected with, or NoError
    weights,            \* sampler: weights, the resolved (question, weight) pairs
    rValue,             \* sampler: the value r of the last draw
    lookup,             \* the last catalog accessor called and its return value
    users,              \* the row of one local account in the users table
    login,              \* the POST /login requests in flight for that account
    tokens,             \* the token versions carried by the issued tokens
    request,            \* the requests in flight through requireAuth
    sessions,           \* ids of the rows of the sessions table
    save                \* the POST /api/sessions request in flight

\* the selection engine
vars == <<questionsCache, question_results, pc, count, mode, subtopic,
          candidates, stats, missedIds, answeredIds, remaining, selected, i,
          result, queries, userId, scopes, topicWeightMap, reads, error,
          weights, rValue, lookup, users, login, tokens, request, sessions, save>>

\* the accounts and the saved exam sessions
accountVars == <<users, login, tokens, request>>

sessionVars == <<sessions, save>>

\* the locals of one selection call
callVars == <<pc, count, mode, subtopic, candidates, stats, missedIds,
              answeredIds, remaining, selected, i, result, queries, scopes,
              topicWeightMap, error, weights, rValue>>

(***************************************************************************)
(* Bounds of the model.                                                    *)
(***************************************************************************)
NumQuestions == 3       \* questions in the catalog
MaxResults == 3         \* rows the question_results table may hold
MaxCount == 3           \* largest count a call is made with
MaxNegCount == 1        \* calls are made with counts down to -MaxNegCount
MaxHistory == 4         \* attempts recorded where single weights are computed
MaxStored == 1          \* rows of a table that no request extends
MaxWeight == 2          \* largest weight where the draw value r is followed
NumLogins == 2          \* concurrent POST /login requests
NumRequests == 2        \* concurrent requests through requireAuth
MaxPasswordChanges == 2 \* password changes followed for the account
MaxAttempts == 6        \* failed logins counted for the account
MaxSessions == 2        \* exam sessions saved
MaxSessionResults == 2  \* question results in the body of a saved session

Null == <<>>            \* questionsCache = null; <<c>> is the cached array c
NoSubtopic == "undefined"
NoUser == "undefined"   \* no learner id: the global scope of the store
LearnerId == "u1"       \* the id of an authenticated learner

Min(a, b) == IF a < b THEN a ELSE b
Max(a, b) == IF a > b THEN a ELSE b

(***************************************************************************)
(* The topic registry and the catalog.  Questions carry an id and a        *)
(* subtopic; odd ids are "iam" questions, even ids "ec2" questions, and    *)
(* the registered topic "s3" has no question.                              *)
(***************************************************************************)
SUBTOPICS == {"iam", "ec2", "s3"}

SubtopicOf(n) == IF n % 2 = 1 THEN "iam" ELSE "ec2"

Catalog == [n \in 1..NumQuestions |-> [id |-> n, subtopic |-> SubtopicOf(n)]]

Modes == {"adaptive", "random", "weak", "missed", "new"}

Range(s) == {s[k] : k \in DOMAIN s}

Ids(s) == {s[k].id : k \in DOMAIN s}

\* loadQuestions: the cache when it is set, the parsed catalog otherwise
loadQuestions(cache) == IF cache # Null THEN cache[1] ELSE Catalog

\* a loadQuestions that reads the file whether or not the cache is set
readsOfUncached(cache) == 1

\* readFileSync + JSON.parse calls of one loadQuestions: none on a set cache
readsOf(cache) == IF cache # Null THEN 0 ELSE 1

(***************************************************************************)
(* The Performance Store: the four read queries of the database layer in   *)
(* the global scope.  No query relates rows of different questions by      *)
(* their order, so the question_results table is kept as the rows of each  *)
(* question, most recent first (ORDER BY id DESC).  A row is               *)
(* [question_id, is_correct, subtopic].                                    *)
(***************************************************************************)
EmptyTable == [id \in Ids(Catalog) |-> <<>>]

\* the rows of the table, each named by its question and its position
Rows(table) ==
    UNION {{<<id, k>> : k \in DOMAIN table[id]} : id \in DOMAIN table}

RowAt(table, r) == table[r[1]][r[2]]

\* SELECT subtopic, COUNT(*), SUM(is_correct) ... GROUP BY subtopic
getTopicStats(table) ==
    [t \in {RowAt(table, r).subtopic : r \in Rows(table)} |->
        [total   |-> Cardinality({r \in Rows(table) :
                        RowAt(table, r).subtopic = t}),
         correct |-> Cardinality({r \in Rows(table) :
                        RowAt(table, r).subtopic = t
                        /\ RowAt(table, r).is_correct})]]

\* SELECT DISTINCT question_id ... WHERE is_correct = 0
getMissedQuestionIds(table) ==
    {RowAt(table, r).question_id :
        r \in {x \in Rows(table) : ~RowAt(table, x).is_correct}}

\* SELECT DISTINCT question_id FROM question_results
getAnsweredQuestionIds(table) ==
    {RowAt(table, r).question_id : r \in Rows(table)}

\* SELECT * ... WHERE question_id = ? ORDER BY id DESC (most recent first)
getResultsByQuestionId(table, id) ==
    IF id \in DOMAIN table THEN table[id] ELSE <<>>

\* INSERT INTO question_results: the new row has the highest id
InsertRow(table, row) ==
    [table EXCEPT ![row.question_id] = <<row>> \o @]

\* the table that holds, for every question, the attempts hist[id] (TRUE for
\* a correct answer), most recent first
TableOf(hist) ==
    [id \in Ids(Catalog) |->
        [k \in 1..Len(hist[id]) |->
            [question_id |-> id, is_correct |-> hist[id][k],
             subtopic |-> SubtopicOf(id)]]]

\* the attempt histories of one question with at most n attempts
Histories(n) == UNION {[1..k -> BOOLEAN] : k \in 0..n}

RECURSIVE SumLen(_, _)
SumLen(hist, ids) ==
    IF ids = {} THEN 0
    ELSE LET id == CHOOSE x \in ids : TRUE
         IN  Len(hist[id]) + SumLen(hist, ids \ {id})

\* the histories a database with at most MaxStored rows holds
StoredHistories ==
    {hist \in [Ids(Catalog) -> Histories(MaxStored)] :
        SumLen(hist, Ids(Catalog)) <= MaxStored}

\* the tables of a database with at most MaxStored rows
StoredTables == {TableOf(hist) : hist \in StoredHistories}

\* the same databases with up to MaxHistory attempts on the first question
HistoryTables ==
    {TableOf([hist EXCEPT ![1] = h]) :
        hist \in StoredHistories, h \in Histories(MaxHistory)}

(***************************************************************************)
(* Array helpers of the service.                                           *)
(***************************************************************************)
\* Array.prototype.slice(0, end): a negative end counts from the end
SliceTo(s, end) ==
    LET k == IF end < 0 THEN Max(Len(s) + end, 0) ELSE Min(end, Len(s))
    IN  SubSeq(s, 1, k)

\* a draw that forgets to remove the drawn item from the pool
SpliceKeepsItem(s, j) == s

\* remaining.splice(j, 1): the array without its j-th element
Splice(s, j) == [k \in 1..(Len(s) - 1) |-> IF k < j THEN s[k] ELSE s[k + 1]]

\* [...candidates].sort(() => Math.random() - 0.5): any reordering
Shuffles(s) ==
    {[k \in 1..Len(s) |-> s[p[k]]] : p \in Permutations(1..Len(s))}

\* a subtopic filter that keeps the whole catalog when nothing matches
FilterSubtopicOrAll(cands, st) ==
    IF st # NoSubtopic /\ \E k \in DOMAIN cands : cands[k].subtopic = st
    THEN SelectSeq(cands, LAMBDA q : q.subtopic = st)
    ELSE cands

\* candidates.filter((q) => q.subtopic === subtopic), when subtopic is given
FilterSubtopic(cands, st) ==
    IF st # NoSubtopic THEN SelectSeq(cands, LAMBDA q : q.subtopic = st)
    ELSE cands

(***************************************************************************)
(* Weights.  A weight is an exact fraction [num, den] with den > 0.        *)
(***************************************************************************)
Frac(n, d) == [num |-> n, den |-> d]

\* an accuracy that defaults to 0 for a topic without attempts
getTopicAccuracyDefaultZero(st, topicStats) ==
    IF st \notin DOMAIN topicStats \/ topicStats[st].total = 0
    THEN Frac(0, 1)
    ELSE Frac(topicStats[st].correct, topicStats[st].total)

\* getTopicAccuracy: correct/total, 0.5 for a topic without attempts
getTopicAccuracy(st, topicStats) ==
    IF st \notin DOMAIN topicStats \/ topicStats[st].total = 0
    THEN Frac(1, 2)
    ELSE Frac(topicStats[st].correct, topicStats[st].total)

\* topic weights without the 0.3 offset: 1 - accuracy
getTopicWeightsNoOffset(topicStats) ==
    [st \in SUBTOPICS |->
        LET a == getTopicAccuracy(st, topicStats)
        IN  Frac(a.den - a.num, a.den)]

\* getTopicWeights: 1 - accuracy + 0.3 for every registered subtopic
getTopicWeights(topicStats) ==
    [st \in SUBTOPICS |->
        LET a == getTopicAccuracy(st, topicStats)
        IN  Frac(13 * a.den - 10 * a.num, 10 * a.den)]

\* a question weight that looks at every attempt instead of the last 3
getQuestionWeightAllHistory(question, table) ==
    LET topicWeights == getTopicWeights(getTopicStats(table))
        baseWeight == IF question.subtopic \in DOMAIN topicWeights
                         /\ topicWeights[question.subtopic].num # 0
                      THEN topicWeights[question.subtopic]
                      ELSE Frac(1, 1)
        history == getResultsByQuestionId(table, question.id)
        correctCount == Cardinality({k \in DOMAIN history : history[k].is_correct})
    IN  IF Len(history) > 0 /\ correctCount = 0
        THEN Frac(baseWeight.num * 15, baseWeight.den * 10)
        ELSE IF Len(history) > 0 /\ correctCount = Len(history)
        THEN Frac(baseWeight.num * 7, baseWeight.den * 10)
        ELSE baseWeight

\* getQuestionWeight: topic weight, boosted or damped by the last 3 attempts
getQuestionWeight(question, table) ==
    LET topicWeights == getTopicWeights(getTopicStats(table))
        \* topicWeights[question.subtopic] || 1.0
        baseWeight == IF question.subtopic \in DOMAIN topicWeights
                         /\ topicWeights[question.subtopic].num # 0
                      THEN topicWeights[question.subtopic]
                      ELSE Frac(1, 1)
        history == getResultsByQuestionId(table, question.id)
        recent == SubSeq(history, 1, Min(3, Len(history)))
        correctCount == Cardinality({k \in DOMAIN recent : recent[k].is_correct})
    IN  IF Len(history) > 0 /\ correctCount = 0
        THEN Frac(baseWeight.num * 15, baseWeight.den * 10)
        ELSE IF Len(history) > 0 /\ correctCount = Len(recent)
        THEN Frac(baseWeight.num * 7, baseWeight.den * 10)
        ELSE baseWeight

(***************************************************************************)
(* Narrowing of the candidate pool by the modes.                           *)
(***************************************************************************)
\* the threshold taken as a percentage: correct / total < 70
WeakTopicsPercent(topicStats) ==
    {t \in DOMAIN topicStats :
        topicStats[t].total > 0
        /\ topicStats[t].correct < 70 * topicStats[t].total}

\* topics with total > 0 and correct / total < 0.7
WeakTopics(topicStats) ==
    {t \in DOMAIN topicStats :
        topicStats[t].total > 0
        /\ 10 * topicStats[t].correct < 7 * topicStats[t].total}

\* case "weak" narrowing the whole catalog instead of the filtered pool
NarrowWeakFromCatalog(cands, weakTopics) ==
    IF weakTopics # {}
    THEN SelectSeq(Catalog, LAMBDA q : q.subtopic \in weakTopics)
    ELSE cands

\* case "weak": keep the questions of weak topics, when there is one
NarrowWeak(cands, weakTopics) ==
    IF weakTopics # {}
    THEN SelectSeq(cands, LAMBDA q : q.subtopic \in weakTopics)
    ELSE cands

\* case "missed" without its filter
NarrowMissedUnfiltered(cands, missed) == cands

\* case "missed": keep the missed questions, when there is one
NarrowMissed(cands, missed) ==
    IF missed # {} THEN SelectSeq(cands, LAMBDA q : q.id \in missed)
    ELSE cands

\* case "new" with the negation of its filter lost
NarrowNewInverted(cands, answered) ==
    SelectSeq(cands, LAMBDA q : q.id \in answered)

\* case "new": keep the questions never answered
NarrowNew(cands, answered) == SelectSeq(cands, LAMBDA q : q.id \notin answered)

(***************************************************************************)
(* The weighted sampler.                                                   *)
(***************************************************************************)
\* candidates.map(q => ({question: q, weight: await getQuestionWeight(q)}))
WeightsOf(cands, table) ==
    [k \in 1..Len(cands) |->
        [question |-> cands[k], weight |-> getQuestionWeight(cands[k], table)]]

\* the loop condition i < Math.min(count, remaining.length), evaluated
\* before every iteration on the current length of remaining
LoopContinues(n, cnt, rem) == n < Min(cnt, Len(rem))

\* the indexes the inner loop can stop at: the first j with r <= cumulative,
\* for r = Math.random() * totalWeight; r = 0 stops at the first item and an
\* r in (cumulative[j-1], cumulative[j]] exists exactly when weight[j] > 0
DrawIndexes(rem) ==
    {j \in 1..Len(rem) : j = 1 \/ rem[j].weight.num > 0}

\* a function value as it is kept in a variable: f @@ <<>> is f, written so
\* that the value is computed when it is assigned, not whenever it is read
Stored(f) == f @@ <<>>

NoQueries == [topicStats |-> 0, history |-> 0, missed |-> 0, answered |-> 0]

NoStats == getTopicStats(EmptyTable)

NoWeights == getTopicWeights(NoStats)

\* the learner scope of a store query: the service calls getTopicStats(),
\* getMissedQuestionIds(), getAnsweredQuestionIds() and
\* getResultsByQuestionId(question.id) without a learner id, whatever id
\* the caller named
QueryScope(uid) == NoUser

Subtopics == SUBTOPICS \cup {NoSubtopic}

Counts == (-MaxNegCount)..MaxCount

TypeOK ==
    /\ questionsCache \in {Null, <<Catalog>>}
    /\ Cardinality(Rows(question_results)) <= MaxResults
    /\ pc \in {"idle", "weights", "sampling", "done", "rejected"}
    /\ count \in Counts
    /\ mode \in Modes
    /\ subtopic \in Subtopics
    /\ Ids(candidates) \subseteq Ids(Catalog)
    /\ i \in 0..NumQuestions
    /\ userId \in {NoUser, LearnerId}
    /\ scopes \subseteq {NoUser, LearnerId}

NoError == "none"           \* the call has not thrown
StoreError == "store error" \* what a failed db.execute rejects with

\* no catalog accessor has been called; <<l>> is the last call l
NoLookup == <<>>

\* the users table without the account, no request in flight
InitNoAccounts ==
    /\ users = <<>>
    /\ login = <<>>
    /\ tokens = {}
    /\ request = <<>>

\* the sessions table before any saved exam, no POST /api/sessions in flight
InitNoSessions ==
    /\ sessions = {}
    /\ save = <<>>

\* the selection engine after start-up: nothing cached, no call in progress
InitEngine ==
    /\ questionsCache = Null
    /\ reads = 0
    /\ lookup = NoLookup
    /\ error = NoError
    /\ weights = <<>>
    /\ rValue = 0
    /\ pc = "idle"
    /\ count = 0
    /\ mode = "adaptive"
    /\ subtopic = NoSubtopic
    /\ candidates = <<>>
    /\ stats = NoStats
    /\ missedIds = {}
    /\ answeredIds = {}
    /\ remaining = <<>>
    /\ selected = <<>>
    /\ i = 0
    /\ result = <<>>
    /\ queries = NoQueries
    /\ scopes = {}
    /\ topicWeightMap = NoWeights

\* the process after start-up, no account and no saved session followed
InitProcess == InitEngine /\ InitNoAccounts /\ InitNoSessions

\* the state of the server after start-up on an empty database
InitServer == InitProcess /\ question_results = EmptyTable

\* requests that carry no learner id: selectQuestions(count, mode, subtopic)
Init == InitServer /\ userId = NoUser

\* requests of an authenticated learner:
\* selectQuestions(count, mode, subtopic, userId)
InitScoped == InitServer /\ userId = LearnerId

(***************************************************************************)
(* createQuestionResult: a saved exam session inserts a row for an         *)
(* answered question, with the subtopic of that question.  Other requests  *)
(* run only while the selection call is suspended at an await.             *)
(***************************************************************************)
createQuestionResult(id, is_correct) ==
    /\ pc \in {"idle", "weights"}
    /\ Cardinality(Rows(question_results)) < MaxResults
    /\ question_results' = InsertRow(question_results,
            [question_id |-> id, is_correct |-> is_correct,
             subtopic |-> SubtopicOf(id)])
    /\ UNCHANGED <<questionsCache, pc, count, mode, subtopic, candidates,
                   stats, missedIds, answeredIds, remaining, selected, i,
                   result, queries, userId, scopes, topicWeightMap>>
    /\ UNCHANGED <<reads, error, weights, rValue, lookup, accountVars, sessionVars>>

(***************************************************************************)
(* selectQuestions(count, mode, subtopic): one action per case of the      *)
(* switch, each from the call to the point where the call either returns   *)
(* or waits in weightedRandomSelection for the weights of its candidates.  *)
(***************************************************************************)
\* a prefix that sorts the array loadQuestions returned, the cached one, in
\* place instead of a copy of it
EnterSortingInPlace(cnt, m, st) ==
    /\ pc = "idle"
    /\ count' = cnt
    /\ mode' = m
    /\ subtopic' = st
    /\ \E shuffled \in Shuffles(loadQuestions(questionsCache)) :
          questionsCache' = <<shuffled>>
    /\ reads' = reads + readsOf(questionsCache)
    /\ UNCHANGED <<question_results, userId, topicWeightMap>>
    /\ UNCHANGED <<weights, rValue, lookup, accountVars, sessionVars>>

\* the prefix of every call: arguments, loadQuestions, subtopic filter
Enter(cnt, m, st) ==
    /\ pc = "idle"
    /\ count' = cnt
    /\ mode' = m
    /\ subtopic' = st
    /\ questionsCache' = <<loadQuestions(questionsCache)>>
    /\ reads' = reads + readsOf(questionsCache)
    /\ UNCHANGED <<question_results, userId, topicWeightMap>>
    /\ UNCHANGED <<weights, rValue, lookup, accountVars, sessionVars>>

\* return shuffled.slice(0, count)
ReturnShuffled(cands) ==
    /\ \E shuffled \in Shuffles(cands) : result' = SliceTo(shuffled, count')
    /\ candidates' = cands
    /\ pc' = "done"
    /\ UNCHANGED <<remaining, selected, i, error>>

\* return weightedRandomSelection(candidates, count), up to its first await
CallWeighted(cands) ==
    /\ candidates' = cands
    /\ IF Len(cands) = 0
       THEN /\ result' = <<>>
            /\ pc' = "done"
       ELSE /\ result' = result
            /\ pc' = "weights"
    /\ UNCHANGED <<remaining, selected, i, error>>

\* case random reading the answered ids before it shuffles
SelectRandomQuerying(cnt, st) ==
    /\ Enter(cnt, "random", st)
    /\ queries' = [queries EXCEPT !.answered = @ + 1]
    /\ scopes' = scopes \cup {QueryScope(userId)}
    /\ ReturnShuffled(FilterSubtopic(loadQuestions(questionsCache), st))
    /\ UNCHANGED <<stats, missedIds, answeredIds>>

SelectRandom(cnt, st) ==
    /\ Enter(cnt, "random", st)
    /\ ReturnShuffled(FilterSubtopic(loadQuestions(questionsCache), st))
    /\ UNCHANGED <<stats, missedIds, answeredIds, queries, scopes>>

SelectWeak(cnt, st) ==
    /\ Enter(cnt, "weak", st)
    /\ stats' = Stored(getTopicStats(question_results))
    /\ queries' = [queries EXCEPT !.topicStats = @ + 1]
    /\ scopes' = scopes \cup {QueryScope(userId)}
    /\ CallWeighted(NarrowWeak(FilterSubtopic(loadQuestions(questionsCache), st),
                               WeakTopics(stats')))
    /\ UNCHANGED <<missedIds, answeredIds>>

SelectMissed(cnt, st) ==
    /\ Enter(cnt, "missed", st)
    /\ missedIds' = getMissedQuestionIds(question_results)
    /\ queries' = [queries EXCEPT !.missed = @ + 1]
    /\ scopes' = scopes \cup {QueryScope(userId)}
    /\ CallWeighted(NarrowMissed(FilterSubtopic(loadQuestions(questionsCache), st),
                                 missedIds'))
    /\ UNCHANGED <<stats, answeredIds>>

SelectNew(cnt, st) ==
    /\ Enter(cnt, "new", st)
    /\ answeredIds' = getAnsweredQuestionIds(question_results)
    /\ queries' = [queries EXCEPT !.answered = @ + 1]
    /\ scopes' = scopes \cup {QueryScope(userId)}
    /\ ReturnShuffled(NarrowNew(FilterSubtopic(loadQuestions(questionsCache), st),
                                answeredIds'))
    /\ UNCHANGED <<stats, missedIds>>

SelectAdaptive(cnt, st) ==
    /\ Enter(cnt, "adaptive", st)
    /\ CallWeighted(FilterSubtopic(loadQuestions(questionsCache), st))
    /\ UNCHANGED <<stats, missedIds, answeredIds, queries, scopes>>

(***************************************************************************)
(* weightedRandomSelection after its first await.                          *)
(***************************************************************************)
\* Promise.all of getQuestionWeight over the candidates has resolved: each
\* candidate cost one getTopicStats query per registered subtopic and one
\* getResultsByQuestionId query
ComputeWeights ==
    /\ pc = "weights"
    /\ remaining' = Stored(WeightsOf(candidates, question_results))
    /\ selected' = <<>>
    /\ i' = 0
    /\ queries' = [queries EXCEPT
            !.topicStats = @ + Len(candidates) * Cardinality(SUBTOPICS),
            !.history = @ + Len(candidates)]
    /\ scopes' = scopes \cup {QueryScope(userId)}
    /\ topicWeightMap' = Stored(getTopicWeights(getTopicStats(question_results)))
    /\ pc' = "sampling"
    /\ weights' = remaining'
    /\ UNCHANGED <<questionsCache, question_results, count, mode, subtopic,
                   candidates, stats, missedIds, answeredIds, result, userId>>
    /\ UNCHANGED <<reads, error, rValue, lookup, accountVars, sessionVars>>

\* one iteration of the draw loop
Draw ==
    /\ pc = "sampling"
    /\ LoopContinues(i, count, remaining)
    /\ \E j \in DrawIndexes(remaining) :
        /\ selected' = Append(selected, remaining[j].question)
        /\ remaining' = Stored(Splice(remaining, j))
    /\ i' = i + 1
    /\ UNCHANGED <<questionsCache, question_results, pc, count, mode,
                   subtopic, candidates, stats, missedIds, answeredIds,
                   result, queries, userId, scopes, topicWeightMap>>
    /\ UNCHANGED <<reads, error, weights, rValue, lookup, accountVars, sessionVars>>

\* the loop condition fails: return selected
ReturnSelected ==
    /\ pc = "sampling"
    /\ ~LoopContinues(i, count, remaining)
    /\ result' = selected
    /\ pc' = "done"
    /\ UNCHANGED <<questionsCache, question_results, count, mode, subtopic,
                   candidates, stats, missedIds, answeredIds, remaining,
                   selected, i, queries, userId, scopes, topicWeightMap>>
    /\ UNCHANGED <<reads, error, weights, rValue, lookup, accountVars, sessionVars>>

\* the call is over and its locals are gone
DropLocals ==
    /\ pc' = "idle"
    /\ count' = 0
    /\ mode' = "adaptive"
    /\ subtopic' = NoSubtopic
    /\ candidates' = <<>>
    /\ stats' = NoStats
    /\ missedIds' = {}
    /\ answeredIds' = {}
    /\ remaining' = <<>>
    /\ selected' = <<>>
    /\ i' = 0
    /\ result' = <<>>
    /\ queries' = NoQueries
    /\ scopes' = {}
    /\ topicWeightMap' = NoWeights
    /\ weights' = <<>>
    /\ rValue' = 0
    /\ error' = NoError
    /\ UNCHANGED <<questionsCache, question_results, userId>>
    /\ UNCHANGED <<reads, lookup, accountVars, sessionVars>>

\* the caller has taken the result
Finish == pc = "done" /\ DropLocals

Next ==
    \/ \E id \in Ids(Catalog), c \in BOOLEAN : createQuestionResult(id, c)
    \/ \E cnt \in Counts, st \in Subtopics : SelectRandom(cnt, st)
    \/ \E cnt \in Counts, st \in Subtopics : SelectWeak(cnt, st)
    \/ \E cnt \in Counts, st \in Subtopics : SelectMissed(cnt, st)
    \/ \E cnt \in Counts, st \in Subtopics : SelectNew(cnt, st)
    \/ \E cnt \in Counts, st \in Subtopics : SelectAdaptive(cnt, st)
    \/ ComputeWeights
    \/ Draw
    \/ ReturnSelected
    \/ Finish

Spec == Init /\ [][Next]_vars

SpecScoped == InitScoped /\ [][Next]_vars

(***************************************************************************)
(* Failing store queries.  db.execute can reject; neither selectQuestions  *)
(* nor weightedRandomSelection catches, so the rejection of an awaited     *)
(* query is the rejection of the call.  The database is one that holds at  *)
(* most MaxStored rows and no other request extends it.                    *)
(***************************************************************************)
InitStored ==
    /\ InitProcess
    /\ question_results \in StoredTables
    /\ userId = NoUser

\* a catch that logs the error and goes on with the candidates it has
ThrowSwallowed(cands) ==
    /\ candidates' = cands
    /\ error' = StoreError
    /\ result' = SliceTo(cands, count')
    /\ pc' = "done"
    /\ UNCHANGED <<remaining, selected, i>>

\* an awaited store query rejects: the call rejects with its error
Throw(cands) ==
    /\ candidates' = cands
    /\ error' = StoreError
    /\ result' = result
    /\ pc' = "rejected"
    /\ UNCHANGED <<remaining, selected, i>>

\* case "weak": await getTopicStats() rejects
SelectWeakFails(cnt, st) ==
    /\ Enter(cnt, "weak", st)
    /\ queries' = [queries EXCEPT !.topicStats = @ + 1]
    /\ scopes' = scopes \cup {QueryScope(userId)}
    /\ Throw(FilterSubtopic(loadQuestions(questionsCache), st))
    /\ UNCHANGED <<stats, missedIds, answeredIds>>

\* case "missed": await getMissedQuestionIds() rejects
SelectMissedFails(cnt, st) ==
    /\ Enter(cnt, "missed", st)
    /\ queries' = [queries EXCEPT !.missed = @ + 1]
    /\ scopes' = scopes \cup {QueryScope(userId)}
    /\ Throw(FilterSubtopic(loadQuestions(questionsCache), st))
    /\ UNCHANGED <<stats, missedIds, answeredIds>>

\* case "new": await getAnsweredQuestionIds() rejects
SelectNewFails(cnt, st) ==
    /\ Enter(cnt, "new", st)
    /\ queries' = [queries EXCEPT !.answered = @ + 1]
    /\ scopes' = scopes \cup {QueryScope(userId)}
    /\ Throw(FilterSubtopic(loadQuestions(questionsCache), st))
    /\ UNCHANGED <<stats, missedIds, answeredIds>>

\* Promise.all rejects with the first getQuestionWeight that rejects: every
\* candidate has issued its first getTopicStats query by then, and at most
\* all the queries of ComputeWeights
ComputeWeightsFails ==
    /\ pc = "weights"
    /\ \E n \in {Len(candidates), Len(candidates) * Cardinality(SUBTOPICS)} :
          queries' = [queries EXCEPT !.topicStats = @ + n]
    /\ scopes' = scopes \cup {QueryScope(userId)}
    /\ Throw(candidates)
    /\ UNCHANGED <<questionsCache, question_results, count, mode, subtopic,
                   stats, missedIds, answeredIds, userId, topicWeightMap>>
    /\ UNCHANGED <<reads, weights, rValue, lookup, accountVars, sessionVars>>

\* the route's catch block answers 500
Catch == pc = "rejected" /\ DropLocals

\* the steps of a selection call on a database no request extends
SelectionSteps ==
    \/ \E cnt \in Counts, st \in Subtopics : SelectRandom(cnt, st)
    \/ \E cnt \in Counts, st \in Subtopics : SelectWeak(cnt, st)
    \/ \E cnt \in Counts, st \in Subtopics : SelectMissed(cnt, st)
    \/ \E cnt \in Counts, st \in Subtopics : SelectNew(cnt, st)
    \/ \E cnt \in Counts, st \in Subtopics : SelectAdaptive(cnt, st)
    \/ ComputeWeights
    \/ Draw
    \/ ReturnSelected
    \/ Finish

NextFailing ==
    \/ SelectionSteps
    \/ \E cnt \in Counts, st \in Subtopics : SelectWeakFails(cnt, st)
    \/ \E cnt \in Counts, st \in Subtopics : SelectMissedFails(cnt, st)
    \/ \E cnt \in Counts, st \in Subtopics : SelectNewFails(cnt, st)
    \/ ComputeWeightsFails
    \/ Catch

SpecFailing == InitStored /\ [][NextFailing]_vars

(***************************************************************************)
(* The catalog accessors.  They are synchronous, so they run between the   *)
(* calls and while a selection call is suspended at its await.             *)
(***************************************************************************)
\* the accessor op called loadQuestions() and returned value
Accessed(op, value) ==
    /\ pc \in {"idle", "weights"}
    /\ questionsCache' = <<loadQuestions(questionsCache)>>
    /\ reads' = reads + readsOf(questionsCache)
    /\ lookup' = <<[op |-> op, value |-> value]>>
    /\ UNCHANGED <<question_results, userId, callVars, accountVars,
                   sessionVars>>

getAllQuestions ==
    Accessed("getAllQuestions", loadQuestions(questionsCache))

\* loadQuestions().find((q) => q.id === id): <<q>>, or <<>> for undefined
getQuestionById(id) ==
    Accessed("getQuestionById",
             SelectSeq(loadQuestions(questionsCache), LAMBDA q : q.id = id))

\* loadQuestions().filter((q) => q.subtopic === subtopic)
getQuestionsBySubtopic(st) ==
    Accessed("getQuestionsBySubtopic",
             SelectSeq(loadQuestions(questionsCache),
                       LAMBDA q : q.subtopic = st))

NextCatalog ==
    \/ SelectionSteps
    \/ getAllQuestions
    \/ \E id \in 0..NumQuestions : getQuestionById(id)
    \/ \E st \in SUBTOPICS : getQuestionsBySubtopic(st)

SpecCatalog == Init /\ [][NextCatalog]_vars

(***************************************************************************)
(* The draw loop on its own, with the drawn value r followed.  The pool    *)
(* is the catalog with whole-number weights from 0 to MaxWeight; r is      *)
(* Math.random() * totalWeight, a value of [0, totalWeight), counted in    *)
(* halves so that every interval between two cumulative weights has a      *)
(* value of r.                                                             *)
(***************************************************************************)
RECURSIVE Cumulative(_, _)
\* cumulative after the inner loop has added remaining[1..j].weight
Cumulative(rem, j) ==
    IF j = 0 THEN 0 ELSE Cumulative(rem, j - 1) + rem[j].weight.num

\* remaining.reduce((sum, item) => sum + item.weight, 0)
TotalWeight(rem) == Cumulative(rem, Len(rem))

\* the values Math.random() * totalWeight can take, in halves
DrawValues(rem) ==
    IF TotalWeight(rem) = 0 THEN {0} ELSE 0..(2 * TotalWeight(rem) - 1)

\* an inner loop that tests r < cumulative
FirstReachingStrict(rem, r2) ==
    LET hits == {j \in 1..Len(rem) : r2 < 2 * Cumulative(rem, j)}
    IN  IF hits = {} THEN 0 ELSE CHOOSE j \in hits : \A k \in hits : j <= k

\* the index the inner loop breaks at: the first j with r <= cumulative, or
\* 0 when the loop ends without a break
FirstReaching(rem, r2) ==
    LET hits == {j \in 1..Len(rem) : r2 <= 2 * Cumulative(rem, j)}
    IN  IF hits = {} THEN 0 ELSE CHOOSE j \in hits : \A k \in hits : j <= k

\* weightedRandomSelection(candidates, count) after its await, for every
\* assignment of whole-number weights to the catalog
InitSampler ==
    /\ questionsCache = <<Catalog>>
    /\ reads = 1
    /\ lookup = NoLookup
    /\ error = NoError
    /\ rValue = 0
    /\ InitNoAccounts
    /\ InitNoSessions
    /\ question_results = EmptyTable
    /\ userId = NoUser
    /\ pc = "sampling"
    /\ count \in Counts
    /\ mode = "adaptive"
    /\ subtopic = NoSubtopic
    /\ candidates = Catalog
    /\ stats = NoStats
    /\ missedIds = {}
    /\ answeredIds = {}
    /\ \E w \in [DOMAIN Catalog -> 0..MaxWeight] :
          weights = [k \in DOMAIN Catalog |->
                        [question |-> Catalog[k], weight |-> Frac(w[k], 1)]]
    /\ remaining = weights
    /\ selected = <<>>
    /\ i = 0
    /\ result = <<>>
    /\ queries = NoQueries
    /\ scopes = {}
    /\ topicWeightMap = NoWeights

\* one iteration of the draw loop with r = r2 / 2
DrawAt(r2) ==
    /\ pc = "sampling"
    /\ LoopContinues(i, count, remaining)
    /\ r2 \in DrawValues(remaining)
    /\ rValue' = r2
    /\ LET j == FirstReaching(remaining, r2)
       IN  IF j = 0
           THEN UNCHANGED <<selected, remaining>>
           ELSE /\ selected' = Append(selected, remaining[j].question)
                /\ remaining' = Stored(Splice(remaining, j))
    /\ i' = i + 1
    /\ UNCHANGED <<questionsCache, question_results, pc, count, mode,
                   subtopic, candidates, stats, missedIds, answeredIds,
                   result, queries, userId, scopes, topicWeightMap>>
    /\ UNCHANGED <<reads, error, weights, lookup, accountVars, sessionVars>>

NextSampler ==
    \/ \E r2 \in 0..(2 * MaxWeight * NumQuestions) : DrawAt(r2)
    \/ ReturnSelected

SpecSampler == InitSampler /\ [][NextSampler]_vars

(***************************************************************************)
(* The join of the weights.  candidates.map started one getQuestionWeight  *)
(* per candidate before the call was suspended; here each of them resolves *)
(* on its own, in any order, and Promise.all resolves when all have.  The  *)
(* database is one that holds at most MaxStored rows and no other request  *)
(* extends it.                                                             *)
(***************************************************************************)
\* the getQuestionWeight promise of candidate k resolves
Resolve(k) ==
    /\ pc = "weights"
    /\ k \in DOMAIN candidates
    /\ k \notin DOMAIN weights
    /\ weights' = Stored(weights @@ (k :>
            [question |-> candidates[k],
             weight |-> getQuestionWeight(candidates[k], question_results)]))
    /\ queries' = [queries EXCEPT
            !.topicStats = @ + Cardinality(SUBTOPICS),
            !.history = @ + 1]
    /\ scopes' = scopes \cup {QueryScope(userId)}
    /\ UNCHANGED <<questionsCache, question_results, pc, count, mode,
                   subtopic, candidates, stats, missedIds, answeredIds,
                   remaining, selected, i, result, userId, topicWeightMap>>
    /\ UNCHANGED <<reads, error, rValue, lookup, accountVars, sessionVars>>

\* a join that goes on as soon as one weight has resolved
JoinEarly ==
    /\ pc = "weights"
    /\ weights # <<>>
    /\ remaining' = Stored([k \in 1..Cardinality(DOMAIN weights) |->
            weights[CHOOSE j \in DOMAIN weights :
                        Cardinality({x \in DOMAIN weights : x < j}) = k - 1]])
    /\ selected' = <<>>
    /\ i' = 0
    /\ topicWeightMap' = Stored(getTopicWeights(getTopicStats(question_results)))
    /\ pc' = "sampling"
    /\ UNCHANGED <<questionsCache, question_results, count, mode, subtopic,
                   candidates, stats, missedIds, answeredIds, result, userId,
                   queries, scopes, weights>>
    /\ UNCHANGED <<reads, error, rValue, lookup, accountVars, sessionVars>>

\* Promise.all resolves with the weights in the order of the candidates;
\* remaining = [...weights]
Join ==
    /\ pc = "weights"
    /\ DOMAIN weights = DOMAIN candidates
    /\ remaining' = weights
    /\ selected' = <<>>
    /\ i' = 0
    /\ topicWeightMap' = Stored(getTopicWeights(getTopicStats(question_results)))
    /\ pc' = "sampling"
    /\ UNCHANGED <<questionsCache, question_results, count, mode, subtopic,
                   candidates, stats, missedIds, answeredIds, result, userId,
                   queries, scopes, weights>>
    /\ UNCHANGED <<reads, error, rValue, lookup, accountVars, sessionVars>>

NextJoin ==
    \/ \E cnt \in Counts, st \in Subtopics : SelectRandom(cnt, st)
    \/ \E cnt \in Counts, st \in Subtopics : SelectWeak(cnt, st)
    \/ \E cnt \in Counts, st \in Subtopics : SelectMissed(cnt, st)
    \/ \E cnt \in Counts, st \in Subtopics : SelectNew(cnt, st)
    \/ \E cnt \in Counts, st \in Subtopics : SelectAdaptive(cnt, st)
    \/ \E k \in 1..NumQuestions : Resolve(k)
    \/ Join
    \/ Draw
    \/ ReturnSelected
    \/ Finish

SpecJoin == InitStored /\ [][NextJoin]_vars

(***************************************************************************)
(* getQuestionWeight on its own: the weight of single questions over       *)
(* databases that hold up to MaxHistory attempts on one question.          *)
(***************************************************************************)
InitWeight ==
    /\ InitProcess
    /\ question_results \in HistoryTables
    /\ userId = NoUser

\* await getQuestionWeight(question): the weight, next to the topic
\* weights its getTopicWeights() call returned
Weigh(id) ==
    /\ pc = "idle"
    /\ weights' = <<[question |-> Catalog[id],
                     weight |-> getQuestionWeight(Catalog[id],
                                                  question_results)]>>
    /\ topicWeightMap' = Stored(getTopicWeights(getTopicStats(question_results)))
    /\ UNCHANGED <<questionsCache, question_results, pc, count, mode,
                   subtopic, candidates, stats, missedIds, answeredIds,
                   remaining, selected, i, result, queries, userId, scopes>>
    /\ UNCHANGED <<reads, error, rValue, lookup, accountVars, sessionVars>>

NextWeight == \E id \in Ids(Catalog) : Weigh(id)

SpecWeight == InitWeight /\ [][NextWeight]_vars

(***************************************************************************)
(* POST /api/auth/login for one local account.  Each await of the handler  *)
(* is a point where the other login requests run.  locked_until is NULL,   *)
(* a time still in the "future" or, once the lock has run out, a time in   *)
(* the "past".                                                             *)
(***************************************************************************)
LockThreshold == 5      \* if (attempts >= 5)

\* the users row of a local account as createLocalUser leaves it
NewUser ==
    [failed_login_attempts |-> 0, locked_until |-> "NULL", token_version |-> 0]

Logins == 1..NumLogins

\* a login request that is not in flight
NoLogin == [pc |-> "idle", locked_until |-> "NULL", token_version |-> 0,
            attempts |-> 0, status |-> 0]

\* the engine idle on an empty database, no saved session followed
InitIdleEngine ==
    /\ InitEngine
    /\ question_results = EmptyTable
    /\ userId = NoUser
    /\ InitNoSessions

\* everything but the users table, the logins and the tokens
loginFrame == <<questionsCache, question_results, userId, reads, lookup,
                callVars, sessionVars, request>>

InitLogin ==
    /\ InitIdleEngine
    /\ users = <<NewUser>>
    /\ login = [p \in Logins |-> NoLogin]
    /\ tokens = {}
    /\ request = <<>>

\* isAccountLocked(user): locked_until set and not yet reached
isAccountLocked(user) == user.locked_until = "future"

\* UPDATE users SET failed_login_attempts = 0, locked_until = NULL
resetFailedLoginAttempts(row) ==
    [row EXCEPT !.failed_login_attempts = 0, !.locked_until = "NULL"]

\* the handler up to await comparePassword: getUserByEmail, then 423 for a
\* locked account; valid says whether the password sent is the right one
LoginStart(p, valid) ==
    /\ login[p].pc = "idle"
    /\ login' = [login EXCEPT ![p] =
            [pc |-> IF isAccountLocked(users[1]) THEN "done"
                    ELSE IF valid THEN "reset" ELSE "increment",
             locked_until |-> users[1].locked_until,
             token_version |-> users[1].token_version,
             attempts |-> 0,
             status |-> IF isAccountLocked(users[1]) THEN 423 ELSE 0]]
    /\ UNCHANGED <<users, tokens, loginFrame>>

\* incrementFailedLoginAttempts, its UPDATE
LoginIncrement(p) ==
    /\ login[p].pc = "increment"
    /\ users[1].failed_login_attempts < MaxAttempts
    /\ users' = [users EXCEPT ![1].failed_login_attempts = @ + 1]
    /\ login' = [login EXCEPT ![p].pc = "reread"]
    /\ UNCHANGED <<tokens, loginFrame>>

\* incrementFailedLoginAttempts, its getUserById; then if (attempts >= 5)
LoginReread(p) ==
    /\ login[p].pc = "reread"
    /\ LET attempts == users[1].failed_login_attempts
       IN  login' = [login EXCEPT
                ![p].attempts = attempts,
                ![p].pc = IF attempts >= LockThreshold THEN "lock" ELSE "done",
                ![p].status = IF attempts >= LockThreshold THEN 0 ELSE 401]
    /\ UNCHANGED <<users, tokens, loginFrame>>

\* lockAccount(user.id, 30), then 423
LoginLock(p) ==
    /\ login[p].pc = "lock"
    /\ users' = [users EXCEPT ![1].locked_until = "future"]
    /\ login' = [login EXCEPT ![p].pc = "done", ![p].status = 423]
    /\ UNCHANGED <<tokens, loginFrame>>

\* resetFailedLoginAttempts(user.id), then the token with the token version
\* getUserByEmail returned, then 200
LoginReset(p) ==
    /\ login[p].pc = "reset"
    /\ users' = [users EXCEPT ![1] = resetFailedLoginAttempts(@)]
    /\ tokens' = tokens \cup {login[p].token_version}
    /\ login' = [login EXCEPT ![p].pc = "done", ![p].status = 200]
    /\ UNCHANGED loginFrame

\* the response is sent
LoginEnd(p) ==
    /\ login[p].pc = "done"
    /\ login' = [login EXCEPT ![p] = NoLogin]
    /\ UNCHANGED <<users, tokens, loginFrame>>

\* the 30 minutes of a lock run out
LockExpires ==
    /\ users[1].locked_until = "future"
    /\ users' = [users EXCEPT ![1].locked_until = "past"]
    /\ UNCHANGED <<login, tokens, loginFrame>>

NextLogin ==
    \/ \E p \in Logins, valid \in BOOLEAN : LoginStart(p, valid)
    \/ \E p \in Logins : LoginIncrement(p)
    \/ \E p \in Logins : LoginReread(p)
    \/ \E p \in Logins : LoginLock(p)
    \/ \E p \in Logins : LoginReset(p)
    \/ \E p \in Logins : LoginEnd(p)
    \/ LockExpires

SpecLogin == InitLogin /\ [][NextLogin]_vars

(***************************************************************************)
(* requireAuth in front of the protected handlers of one account, with     *)
(* POST /api/auth/change-password among them and the Google OAuth callback *)
(* issuing further tokens.  A token is modelled by the tokenVersion of its *)
(* payload.  getUserById is the one await of requireAuth; the comparison   *)
(* of the versions follows it without another await.                       *)
(***************************************************************************)
Requests == 1..NumRequests

NoToken == 0 - 1        \* no auth_token cookie, or one verifyToken rejects

\* a request that is not in flight; stale records that token_version had
\* already moved past the token's when the request arrived
NoRequest == [pc |-> "idle", token |-> NoToken, token_version |-> 0,
              stale |-> FALSE, status |-> 0]

\* everything but the users table, the tokens and the requests
authFrame == <<questionsCache, question_results, userId, reads, lookup,
               callVars, sessionVars, login>>

InitAuth ==
    /\ InitIdleEngine
    /\ users = <<NewUser>>
    /\ login = <<>>
    /\ tokens = {NewUser.token_version}
    /\ request = [q \in Requests |-> NoRequest]

\* GET /api/auth/google/callback: getUserById, then generateToken with the
\* token_version of that row
IssueToken ==
    /\ users[1].token_version \notin tokens
    /\ tokens' = tokens \cup {users[1].token_version}
    /\ UNCHANGED <<users, request, authFrame>>

\* requireAuth up to await getUserById: 401 without a token that verifies
Present(q, tok) ==
    /\ request[q].pc = "idle"
    /\ request' = [request EXCEPT ![q] =
            [pc |-> IF tok = NoToken THEN "done" ELSE "getUserById",
             token |-> tok,
             token_version |-> 0,
             stale |-> tok # NoToken /\ tok < users[1].token_version,
             status |-> IF tok = NoToken THEN 401 ELSE 0]]
    /\ UNCHANGED <<users, tokens, authFrame>>

\* requireAuth from the row getUserById returns, as optionalAuth treats it:
\* without the comparison of the versions
requireAuthAnyVersion(q) ==
    /\ request[q].pc = "getUserById"
    /\ request' = [request EXCEPT
            ![q].token_version = users[1].token_version,
            ![q].pc = "handler"]
    /\ UNCHANGED <<users, tokens, authFrame>>

\* requireAuth from the row getUserById returns: 401 "Session invalidated"
\* if user.token_version !== payload.tokenVersion, else next()
requireAuth(q) ==
    /\ request[q].pc = "getUserById"
    /\ LET user == users[1]
           invalidated == user.token_version # request[q].token
       IN  request' = [request EXCEPT
                ![q].token_version = user.token_version,
                ![q].pc = IF invalidated THEN "done" ELSE "handler",
                ![q].status = IF invalidated THEN 401 ELSE 0]
    /\ UNCHANGED <<users, tokens, authFrame>>

\* UPDATE users SET password = ?, token_version = token_version + 1
updateUserPassword(row) == [row EXCEPT !.token_version = @ + 1]

\* POST /change-password behind requireAuth, the current password right:
\* await updateUserPassword, then 200
ChangePassword(q) ==
    /\ request[q].pc = "handler"
    /\ users[1].token_version < MaxPasswordChanges
    /\ users' = [users EXCEPT ![1] = updateUserPassword(@)]
    /\ request' = [request EXCEPT ![q].pc = "done", ![q].status = 200]
    /\ UNCHANGED <<tokens, authFrame>>

\* any other protected handler, GET /me for one, answers
HandlerReturns(q) ==
    /\ request[q].pc = "handler"
    /\ request' = [request EXCEPT ![q].pc = "done", ![q].status = 200]
    /\ UNCHANGED <<users, tokens, authFrame>>

\* the response is sent
RequestEnd(q) ==
    /\ request[q].pc = "done"
    /\ request' = [request EXCEPT ![q] = NoRequest]
    /\ UNCHANGED <<users, tokens, authFrame>>

NextAuth ==
    \/ \E q \in Requests, tok \in tokens \cup {NoToken} : Present(q, tok)
    \/ \E q \in Requests : requireAuth(q)
    \/ \E q \in Requests : ChangePassword(q)
    \/ \E q \in Requests : HandlerReturns(q)
    \/ \E q \in Requests : RequestEnd(q)
    \/ IssueToken

SpecAuth == InitAuth /\ [][NextAuth]_vars

(***************************************************************************)
(* POST /api/sessions: createSession, then one createQuestionResult per    *)
(* result of the body, each behind its own await and none in a             *)
(* transaction.  Rows of question_results carry the session_id here.  The  *)
(* selection engine reads the table between any two of these steps.        *)
(***************************************************************************)
\* the results arrays of a request body
Bodies ==
    UNION {[1..n -> [question_id : Ids(Catalog), is_correct : BOOLEAN]] :
            n \in 0..MaxSessionResults}

\* no POST /api/sessions in flight
NoSave == [pc |-> "idle", session_id |-> 0, results |-> <<>>, k |-> 0,
           status |-> 0]

\* everything but the two tables, the save and what Weigh reads into
sessionFrame == <<questionsCache, pc, count, mode, subtopic, candidates,
                  stats, missedIds, answeredIds, remaining, selected, i,
                  result, queries, userId, scopes, reads, error, rValue,
                  lookup, accountVars>>

InitSession ==
    /\ InitEngine
    /\ InitNoAccounts
    /\ question_results = EmptyTable
    /\ userId = NoUser
    /\ sessions = {}
    /\ save = <<NoSave>>

\* the question_results rows of one session
ResultsOfSession(table, sid) ==
    {r \in Rows(table) : RowAt(table, r).session_id = sid}

\* the handler up to the loop: await createSession(...) inserts the sessions
\* row, lastInsertRowid is its id
PostSessions(body) ==
    /\ save[1].pc = "idle"
    /\ Cardinality(sessions) < MaxSessions
    /\ Cardinality(Rows(question_results)) + Len(body) <= MaxResults
    /\ LET id == Cardinality(sessions) + 1
       IN  /\ sessions' = sessions \cup {id}
           /\ save' = <<[pc |-> "results", session_id |-> id,
                         results |-> body, k |-> 0, status |-> 0]>>
    /\ UNCHANGED <<question_results, weights, topicWeightMap, sessionFrame>>

\* createSession throws: nothing stored, the catch answers 500
createSessionFails(body) ==
    /\ save[1].pc = "idle"
    /\ save' = <<[NoSave EXCEPT !.pc = "done", !.results = body,
                                !.status = 500]>>
    /\ UNCHANGED <<sessions, question_results, weights, topicWeightMap,
                   sessionFrame>>

\* one iteration of for (const result of results):
\* await createQuestionResult({session_id: session.id, ...})
SaveResult ==
    /\ save[1].pc = "results"
    /\ save[1].k < Len(save[1].results)
    /\ LET r == save[1].results[save[1].k + 1]
       IN  question_results' = InsertRow(question_results,
                [session_id |-> save[1].session_id,
                 question_id |-> r.question_id,
                 is_correct |-> r.is_correct,
                 subtopic |-> SubtopicOf(r.question_id)])
    /\ save' = [save EXCEPT ![1].k = @ + 1]
    /\ UNCHANGED <<sessions, weights, topicWeightMap, sessionFrame>>

\* createQuestionResult throws: the catch answers 500 and deletes nothing
SaveResultFails ==
    /\ save[1].pc = "results"
    /\ save[1].k < Len(save[1].results)
    /\ save' = [save EXCEPT ![1].pc = "done", ![1].status = 500]
    /\ UNCHANGED <<sessions, question_results, weights, topicWeightMap,
                   sessionFrame>>

\* the loop is over: res.status(201).json(session)
SaveCreated ==
    /\ save[1].pc = "results"
    /\ save[1].k = Len(save[1].results)
    /\ save' = [save EXCEPT ![1].pc = "done", ![1].status = 201]
    /\ UNCHANGED <<sessions, question_results, weights, topicWeightMap,
                   sessionFrame>>

\* the response is sent
SaveEnd ==
    /\ save[1].pc = "done"
    /\ save' = <<NoSave>>
    /\ UNCHANGED <<sessions, question_results, weights, topicWeightMap,
                   sessionFrame>>

NextSession ==
    \/ \E body \in Bodies : PostSessions(body)
    \/ \E body \in Bodies : createSessionFails(body)
    \/ SaveResult
    \/ SaveResultFails
    \/ SaveCreated
    \/ SaveEnd
    \/ \E id \in Ids(Catalog) : Weigh(id)

SpecSession == InitSession /\ [][NextSession]_vars

(***************************************************************************)
(* Properties of the selection engine.                                     *)
(***************************************************************************)
WeightedModes == {"adaptive", "weak", "missed"}

\* the topic-filtered pool of the call in progress
TopicPool == FilterSubtopic(Catalog, subtopic)

\* a topic stat with attempts and an accuracy strictly below 70%
Below70(stat) == stat.total > 0 /\ 10 * stat.correct < 7 * stat.total

HasWeakTopic == \E t \in DOMAIN stats : Below70(stats[t])

NoDuplicates(s) == Cardinality(Ids(s)) = Len(s)

Questions(rem) == [k \in 1..Len(rem) |-> rem[k].question]

\* C1: for every mode, topic filter and count >= 0, selectQuestions returns
\* exactly min(count, P) questions, P the size of the candidate pool left
\* after topic filtering, mode narrowing and fallback.
C1_LengthIsMinCountPool ==
    (pc = "done" /\ count >= 0) => Len(result) = Min(count, Len(candidates))

\* C2: the weighted sampler called with a count greater than or equal to the
\* pool size returns every candidate exactly once.
C2_SamplerReturnsWholePool ==
    (pc = "done" /\ mode \in WeightedModes /\ count >= Len(candidates))
        => /\ Len(result) = Len(candidates)
           /\ Ids(result) = Ids(candidates)

\* C3: at every step of the weighted sampler the selected list and the
\* remaining pool are disjoint and together hold exactly the candidates; the
\* returned list has no duplicate, no question from outside the candidates
\* and no more than count items (none for a count below 1).
C3_SamplerPartition ==
    /\ pc = "sampling" =>
        /\ Ids(selected) \cap Ids(Questions(remaining)) = {}
        /\ Ids(selected) \cup Ids(Questions(remaining)) = Ids(candidates)
        /\ Len(selected) + Len(remaining) = Len(candidates)
        /\ NoDuplicates(selected)
        /\ Len(selected) <= Max(count, 0)
    /\ (pc = "done" /\ mode \in WeightedModes) =>
        /\ NoDuplicates(result)
        /\ Range(result) \subseteq Range(candidates)
        /\ Len(result) <= Max(count, 0)

\* C3 witness: the sampler is between two draws, one item drawn, others left
C3_Witness ==
    pc = "sampling" /\ Len(selected) >= 1 /\ Len(remaining) >= 1 /\ count >= 2

\* C4: for every count <= 0, every mode and topic filter, selectQuestions
\* returns an empty sequence.
C4_NonPositiveCountIsEmpty ==
    (pc = "done" /\ count <= 0) => result = <<>>

\* C5: for every count <= 0 and every mode, selectQuestions issues no
\* Performance Store query before returning.
C5_NonPositiveCountNoQuery ==
    (pc # "idle" /\ count <= 0) => queries = NoQueries

\* C6: in weak mode, when some topic has attempts and an accuracy strictly
\* below 70%, every returned question belongs to such a topic; topics at 70%
\* or above, or without attempts, contribute no question.
C6_WeakOnlyWeakTopics ==
    (pc = "done" /\ mode = "weak" /\ HasWeakTopic)
        => \A k \in DOMAIN result :
              /\ result[k].subtopic \in DOMAIN stats
              /\ Below70(stats[result[k].subtopic])

\* C6 witness: a weak call returned questions while the topic-filtered pool
\* also held a question of an attempted topic at 70% or above
C6_Witness ==
    /\ pc = "done" /\ mode = "weak" /\ HasWeakTopic /\ result # <<>>
    /\ \E k \in DOMAIN TopicPool :
          /\ TopicPool[k].subtopic \in DOMAIN stats
          /\ ~Below70(stats[TopicPool[k].subtopic])

\* C7: in weak mode, when no topic is below 70% accuracy, the result is drawn
\* from the full topic-filtered pool and its length is min(count, size of the
\* topic-filtered pool).
C7_WeakFallbackLength ==
    (pc = "done" /\ mode = "weak" /\ ~HasWeakTopic /\ count >= 0)
        => /\ Range(result) \subseteq Range(TopicPool)
           /\ Len(result) = Min(count, Len(TopicPool))

\* C8: in missed mode, when the missed-id set is not empty, the id of every
\* returned question is in that set.
C8_MissedOnlyMissed ==
    (pc = "done" /\ mode = "missed" /\ missedIds # {})
        => Ids(result) \subseteq missedIds

\* C8 witness: a missed call returned questions while the topic-filtered
\* pool also held a question that was never missed
C8_Witness ==
    /\ pc = "done" /\ mode = "missed" /\ missedIds # {} /\ result # <<>>
    /\ Ids(TopicPool) \ missedIds # {}

\* C9: in missed mode with an empty missed-id set, the result is drawn from
\* the full topic-filtered pool and its length is min(count, size of the
\* topic-filtered pool).
C9_MissedFallbackLength ==
    (pc = "done" /\ mode = "missed" /\ missedIds = {} /\ count >= 0)
        => /\ Range(result) \subseteq Range(TopicPool)
           /\ Len(result) = Min(count, Len(TopicPool))

\* C10: in new mode, when some question of the topic-filtered pool was never
\* answered, no returned question's id is in the answered-id set.
C10_NewOnlyUnanswered ==
    (pc = "done" /\ mode = "new" /\ Ids(TopicPool) \ answeredIds # {})
        => Ids(result) \cap answeredIds = {}

\* C10 witness: a new call returned questions while the topic-filtered pool
\* held answered and unanswered questions
C10_Witness ==
    /\ pc = "done" /\ mode = "new" /\ result # <<>>
    /\ Ids(TopicPool) \ answeredIds # {}
    /\ Ids(TopicPool) \cap answeredIds # {}

\* the topic stats of the table as it is now
TableStats == getTopicStats(question_results)

Attempted(st) == st \in DOMAIN TableStats /\ TableStats[st].total > 0

\* the narrowing of the mode leaves no question of the topic-filtered pool
NarrowedToNothing ==
    \/ /\ mode = "weak"
       /\ HasWeakTopic
       /\ \A k \in DOMAIN TopicPool :
             ~(/\ TopicPool[k].subtopic \in DOMAIN stats
               /\ Below70(stats[TopicPool[k].subtopic]))
    \/ /\ mode = "missed"
       /\ missedIds # {}
       /\ Ids(TopicPool) \cap missedIds = {}
    \/ /\ mode = "new"
       /\ Ids(TopicPool) \subseteq answeredIds

\* C11: in new mode, when every question of the topic-filtered pool was
\* already answered, selectQuestions falls back to the topic-filtered pool and
\* returns min(count, pool size) questions rather than an empty result.
C11_NewFallsBackWhenAllAnswered ==
    (pc = "done" /\ mode = "new" /\ count >= 0
     /\ Ids(TopicPool) \subseteq answeredIds)
        => /\ Range(result) \subseteq Range(TopicPool)
           /\ Len(result) = Min(count, Len(TopicPool))

\* C12: in adaptive mode for a learner with zero recorded answers,
\* selectQuestions issues no topic-stats query and no per-question-history
\* query.
C12_AdaptiveNoHistoryNoWeightQuery ==
    (pc # "idle" /\ mode = "adaptive" /\ count >= 1
     /\ Rows(question_results) = {})
        => queries.topicStats = 0 /\ queries.history = 0

\* C13: in random mode selectQuestions never queries the Performance Store,
\* for any count and topic filter, in every call of a sequence of calls.
C13_RandomNeverQueries ==
    (pc # "idle" /\ mode = "random") => queries = NoQueries /\ scopes = {}

\* C13 witness: a random call returned questions while the store held rows
C13_Witness ==
    /\ pc = "done" /\ mode = "random" /\ result # <<>>
    /\ Rows(question_results) # {}

\* C14: during one weighted selection call (adaptive mode, learner with
\* history) the topic-stats query is issued exactly once, whatever the number
\* of candidates and of registered topics.
C14_TopicStatsQueriedOnce ==
    (pc \in {"sampling", "done"} /\ mode = "adaptive" /\ candidates # <<>>
     /\ count >= 1 /\ Rows(question_results) # {})
        => queries.topicStats = 1

\* C15: every Performance Store query issued while serving a call is scoped
\* with exactly the learnerId passed to the call, and with the global scope
\* when none is passed.
C15_QueriesScopedByLearner == count >= 1 => scopes \subseteq {userId}

\* C16: whenever the narrowing of a mode (weak topics, missed ids, unanswered
\* ids) leaves an empty pool while the topic-filtered pool is not empty,
\* selectQuestions with count >= 1 falls back to the topic-filtered pool and
\* returns a non-empty result.
C16_EmptyNarrowingFallsBack ==
    (pc = "done" /\ count >= 1 /\ TopicPool # <<>> /\ NarrowedToNothing)
        => /\ result # <<>>
           /\ Range(result) \subseteq Range(TopicPool)

\* C17: in every mode, if the topic filter matches no question of the
\* catalog, selectQuestions returns an empty sequence, without falling back
\* to questions of other topics.
C17_UnknownTopicIsEmpty ==
    (subtopic # NoSubtopic
     /\ \A k \in DOMAIN Catalog : Catalog[k].subtopic # subtopic)
        => /\ pc \in {"idle", "done"}
           /\ result = <<>>

\* C17 witness: a call for a topic without questions returned, with a
\* positive count, a catalog that has questions and a store that has rows
C17_Witness ==
    /\ pc = "done" /\ subtopic # NoSubtopic /\ count >= 1
    /\ \A k \in DOMAIN Catalog : Catalog[k].subtopic # subtopic
    /\ Catalog # <<>>
    /\ Rows(question_results) # {}

\* C18: when a topic filter is supplied, every returned question has that
\* topic, in every mode and on every fallback path.
C18_ResultHasRequestedTopic ==
    (pc = "done" /\ subtopic # NoSubtopic)
        => \A k \in DOMAIN result : result[k].subtopic = subtopic

\* C18 witness: a weak call with a topic filter returned questions while
\* another topic was weak too
C18_Witness ==
    /\ pc = "done" /\ mode = "weak" /\ subtopic # NoSubtopic /\ result # <<>>
    /\ \E t \in DOMAIN stats : Below70(stats[t]) /\ t # subtopic

\* C19: the weight of a topic with total > 0 is 1 - correct/total + 0.3: 0.3
\* at 100% accuracy, 1.3 at 0% accuracy, always within [0.3, 1.3] and
\* positive; a topic with total = 0 has the default accuracy 0.5 and the
\* weight 0.8.
C19_TopicWeightFormula ==
    pc = "sampling" =>
        LET ts == Stored(TableStats)
        IN  \A st \in SUBTOPICS :
                LET w == topicWeightMap[st]
                IN  /\ w.den > 0 /\ w.num > 0
                    /\ 3 * w.den <= 10 * w.num
                    /\ 10 * w.num <= 13 * w.den
                    /\ IF st \in DOMAIN ts /\ ts[st].total > 0
                       THEN LET total == ts[st].total
                                correct == ts[st].correct
                            IN  /\ 10 * total * w.num
                                    = (13 * total - 10 * correct) * w.den
                                /\ correct = total => 10 * w.num = 3 * w.den
                                /\ correct = 0 => 10 * w.num = 13 * w.den
                       ELSE 10 * w.num = 8 * w.den

\* C19 witness: weights were computed while one topic stood at 100%, one at
\* 0% and one had no attempts
C19_Witness ==
    /\ pc = "sampling"
    /\ \E st \in SUBTOPICS :
          Attempted(st) /\ TableStats[st].correct = TableStats[st].total
    /\ \E st \in SUBTOPICS : Attempted(st) /\ TableStats[st].correct = 0
    /\ \E st \in SUBTOPICS : ~Attempted(st)

\* C20 as stated: an unattempted topic (total = 0 or absent from the topic
\* stats) gets a topic weight of exactly 1.0.
C20_UnattemptedWeightIsOne ==
    pc = "sampling" =>
        \A st \in SUBTOPICS :
            ~Attempted(st) => topicWeightMap[st].num = topicWeightMap[st].den

\* C20 as amended: an unattempted topic (total = 0 or absent from the topic
\* stats) gets a topic weight of exactly 0.8, that is 1 - 0.5 + 0.3.
C20_UnattemptedWeightIsPointEight ==
    pc = "sampling" =>
        LET ts == Stored(TableStats)
        IN  \A st \in SUBTOPICS :
                ~(st \in DOMAIN ts /\ ts[st].total > 0) =>
                    /\ topicWeightMap[st].den > 0
                    /\ 10 * topicWeightMap[st].num = 8 * topicWeightMap[st].den

\* C20 witness: weights were computed for a candidate of an unattempted topic
\* while another topic had attempts
C20_Witness ==
    /\ pc = "sampling"
    /\ \E k \in DOMAIN candidates : ~Attempted(candidates[k].subtopic)
    /\ \E st \in SUBTOPICS : Attempted(st)

\* the attempts on a question that count for its weight: the 3 most recent
RecentAttempts(id) ==
    SubSeq(question_results[id], 1, Min(3, Len(question_results[id])))

\* a is b times n/10, in exact fractions
IsTenths(a, b, n) == 10 * a.num * b.den = n * b.num * a.den

\* C21: the question weight is the topic base weight times 1.5 when the
\* question has attempts and its at most 3 most recent attempts are all
\* incorrect, times 0.7 when they are all correct, and the base weight itself
\* when they are mixed or there is no attempt; attempts older than the third
\* most recent do not enter.
C21_WeightFromLastThree ==
    (pc = "idle" /\ weights # <<>>) =>
        LET question == weights[1].question
            weight == weights[1].weight
            base == topicWeightMap[question.subtopic]
            recent == RecentAttempts(question.id)
        IN  IF recent # <<>> /\ \A k \in DOMAIN recent : ~recent[k].is_correct
            THEN IsTenths(weight, base, 15)
            ELSE IF recent # <<>> /\ \A k \in DOMAIN recent : recent[k].is_correct
            THEN IsTenths(weight, base, 7)
            ELSE IsTenths(weight, base, 10)

\* C21 witness: a question was weighed whose 3 most recent attempts are all
\* incorrect and whose fourth most recent attempt is correct
C21_Witness ==
    /\ pc = "idle" /\ weights # <<>>
    /\ LET history == question_results[weights[1].question.id]
       IN  /\ Len(history) >= 4
           /\ \A k \in 1..3 : ~history[k].is_correct
           /\ history[4].is_correct
    /\ IsTenths(weights[1].weight,
                topicWeightMap[weights[1].question.subtopic], 15)

\* C22: if a Performance Store query issued during a selection call fails,
\* the whole call fails with that error: a call that met a failed query never
\* returns a question list, neither partial nor degraded.
C22_StoreFailureRejectsCall ==
    /\ error # NoError => (pc = "rejected" /\ result = <<>>)
    /\ pc = "done" => error = NoError
    /\ pc = "rejected" => error = StoreError

\* C22 witness: the weights of a non-empty pool were being computed, after a
\* store query that succeeded, when a query failed
C22_Witness ==
    /\ pc = "rejected" /\ error = StoreError
    /\ mode = "weak" /\ candidates # <<>>
    /\ queries.topicStats >= 2
    /\ Rows(question_results) # {}

\* C23: catalog loading is idempotent: the source is read and parsed at most
\* once, and once it was, every loadQuestions call, made directly or through
\* getAllQuestions, getQuestionById, getQuestionsBySubtopic or
\* selectQuestions, works on the same cached catalog.
C23_CatalogLoadedOnce ==
    /\ reads <= 1
    /\ questionsCache # Null => (reads = 1 /\ questionsCache[1] = Catalog)
    /\ pc # "idle" =>
          /\ questionsCache # Null
          /\ Range(candidates) \subseteq Range(questionsCache[1])
    /\ lookup # NoLookup =>
          /\ questionsCache # Null
          /\ Range(lookup[1].value) \subseteq Range(questionsCache[1])
          /\ lookup[1].op = "getAllQuestions" =>
                lookup[1].value = questionsCache[1]

\* C23 witness: getAllQuestions returned the cached catalog while a
\* selection call was suspended, the source having been read once
C23_Witness ==
    /\ pc = "weights"
    /\ lookup # NoLookup
    /\ lookup[1].op = "getAllQuestions"
    /\ lookup[1].value = Catalog
    /\ reads = 1

\* what the uniform path returns for a pool: shuffled.slice(0, count)
UniformOutcomes(cands, cnt) == {SliceTo(sh, cnt) : sh \in Shuffles(cands)}

\* C24: for a learner with zero history the weighted-sampling path and the
\* uniform shuffle-and-take-first-count path are equivalent on any pool and
\* count: every candidate gets the same weight, and what the weighted path
\* returns (in particular its length) is what the uniform path can return.
C24_ZeroHistoryWeightedIsUniform ==
    /\ (pc = "sampling" /\ Rows(question_results) = {}) =>
          \A j, k \in DOMAIN weights :
              weights[j].weight.num * weights[k].weight.den
                  = weights[k].weight.num * weights[j].weight.den
    /\ (pc = "done" /\ mode = "adaptive" /\ count >= 1
        /\ Rows(question_results) = {}) =>
          result \in UniformOutcomes(candidates, count)

\* the pool the last draw was made from: the weights of the questions not
\* selected before it, in their order
PoolBeforeLastDraw ==
    LET earlier == Range(SubSeq(selected, 1, Len(selected) - 1))
    IN  SelectSeq(weights, LAMBDA item : item.question \notin earlier)

\* C25: every iteration of the draw loop on a non-empty pool moves exactly
\* one item from the pool to the result, the item at the first index whose
\* cumulative weight reaches the drawn value r; when the total remaining
\* weight is 0 that is the first remaining item, and no draw is skipped.
C25_DrawMovesFirstReaching ==
    pc \in {"sampling", "done"} =>
        /\ Len(selected) = i
        /\ Len(selected) + Len(remaining) = Len(weights)
        /\ remaining = SelectSeq(weights,
                LAMBDA item : item.question \notin Range(selected))
        /\ i >= 1 =>
            LET pool == PoolBeforeLastDraw
                j == CHOOSE k \in DOMAIN pool :
                        pool[k].question = selected[Len(selected)]
            IN  /\ \E k \in DOMAIN pool :
                      pool[k].question = selected[Len(selected)]
                /\ rValue <= 2 * Cumulative(pool, j)
                /\ \A k \in 1..(j - 1) : rValue > 2 * Cumulative(pool, k)
                /\ TotalWeight(pool) = 0 => j = 1

\* C25 witness: two draws were made from a pool whose weights are all 0 and
\* took its first and then its second item
C25_Witness ==
    /\ pc = "sampling"
    /\ TotalWeight(weights) = 0
    /\ i = 2
    /\ selected = <<weights[1].question, weights[2].question>>

SelectionStep == pc' # pc \/ i' # i

C28_LockedOnlyAfterFiveFailures ==
    users # <<>> =>
        (users[1].locked_until # "NULL"
            => users[1].failed_login_attempts >= LockThreshold)

\* C29: once a password change has completed, a request that presents a token
\* of an earlier token_version is answered 401 by requireAuth and never
\* reaches a protected handler; a request reaches a handler only with the
\* token_version requireAuth read from the users row.
C29_StaleTokenRejected ==
    request # <<>> =>
        \A q \in DOMAIN request :
            /\ request[q].stale =>
                    /\ request[q].pc # "handler"
                    /\ request[q].pc = "done" => request[q].status = 401
            /\ request[q].pc = "handler" =>
                    request[q].token = request[q].token_version

\* a request that arrived with a token of the version before a completed
\* password change has been answered 401
C29_Witness ==
    /\ request # <<>>
    /\ users[1].token_version >= 1
    /\ \E q \in DOMAIN request :
            /\ request[q].stale
            /\ request[q].token = users[1].token_version - 1
            /\ request[q].pc = "done"
            /\ request[q].status = 401

\* C30: saving an exam session is all-or-nothing for the question_results
\* table: at every point where a selectQuestions call can read it, and after
\* a save that failed, the session row of the save and all the results of
\* its body are stored, or neither the row nor any of its results is.
C30_SaveIsAllOrNothing ==
    save # <<>> =>
        LET sid == save[1].session_id
            stored == Cardinality(ResultsOfSession(question_results, sid))
        IN  save[1].pc # "idle" =>
                \/ sid \in sessions /\ stored = Len(save[1].results)
                \/ sid \notin sessions /\ stored = 0

====
